---------------------------- MODULE Spec2Model ----------------------------
(***************************************************************************)
(* A model of src/app/actions.tsx: the sendMessage server action, the      *)
(* text handler and the four tool generators (get_movie_info,              *)
(* get_movie_cast, search_movie_title, filter_movies) that read and write  *)
(* the shared AI state `history`.                                          *)
(*                                                                         *)
(* Every `await` and the generator's `yield` are suspension points: the    *)
(* code between two of them runs without interruption (one JavaScript      *)
(* task), so each action below is one such run.  The completion oracle     *)
(* (streamUI's model) and the movie provider (fetch) are the environment:  *)
(* their answers are chosen with \E from the small sets below.  A success  *)
(* response carries a body of the shape the provider's interface fixes:    *)
(* an array of movie records, holding the record looked up for the two     *)
(* lookups by id.                                                          *)
(***************************************************************************)
EXTENDS Naturals, Sequences, FiniteSets, TLC

\* ------------------------------------------------------------------ state
VARIABLES
    history,   \* the AI state (getMutableAIState): the array of messages
    owner,     \* bookkeeping: for each entry of history, the call that appended it
    call       \* per sendMessage call: where it stands and its local values

vars == <<history, owner, call>>

\* ------------------------------------------------------------------ bounds
\* Number of sendMessage calls made against the one store.
MaxCalls == 2

Calls == 1..MaxCalls

\* ------------------------------------------------------------ input values
\* What JavaScript reads from a field the record does not have.
Undefined == "<undefined>"

\* User messages (the argument of sendMessage).
Messages == {"tell me about tt1375666", "what's the weather today"}

\* Text replies of the oracle, each as the deltas it is streamed in.
Replies == {<<"Hello">>, <<"I am a demo", " and cannot do that">>}

ToolNames == {"get_movie_info", "get_movie_cast", "search_movie_title", "filter_movies"}

\* A parameter bag is an object: its keys in insertion order, each with a
\* value that is a string or a number.
Str(s) == [string |-> s]
Num(n) == [number |-> n]

ParamBags(tool) ==
    CASE tool = "get_movie_info"     -> {<< <<"imdbId", Str("tt1375666")>> >>}
      [] tool = "get_movie_cast"     -> {<< <<"imdbId", Str("tt1375666")>> >>}
      [] tool = "search_movie_title" -> {<< <<"title", Str("Inception")>> >>}
      [] tool = "filter_movies"      -> {<< <<"Genre", Str("action")>>, <<"MinYear", Num(2010)>>, <<"MinRating", Num(7)>> >>}

\* A movie record of the provider.  JavaScript property names are case
\* sensitive: Title and title are two fields, and a record may carry either
\* or both.
Record(T, t) ==
    [Title |-> T, title |-> t, overview |-> "A thief who steals secrets",
     release_date |-> "2010-07-16", vote_average |-> "8.8",
     Actors |-> <<"L", ",", " ", "J">>, Year |-> "2010",
     id |-> "27205", imdbID |-> "tt1375666"]

Records ==
    {Record("Inception", Undefined), Record(Undefined, "Inception"), Record("Inception", "Inception")}

\* Bodies of a success response: one record for a lookup by id, a list for
\* a search or a filter.
Bodies(tool) ==
    IF tool \in {"get_movie_info", "get_movie_cast"}
    THEN {<<r>> : r \in Records}
    ELSE {<< >>, <<Record("Inception", Undefined), Record(Undefined, "Inception")>>}

NoResponse == [ok |-> FALSE, body |-> << >>]

Responses(tool) ==
    {NoResponse} \cup {[ok |-> TRUE, body |-> b] : b \in Bodies(tool)}


\* ------------------------------------------------------- pure helpers
\* The system instruction (the template literal `content`).
content == "You are a movie bot and you can help users get information about movies."

\* A value inside a template literal: undefined prints as "undefined".
TemplateText(v) == IF v = Undefined THEN "undefined" ELSE v

\* A value as a JSX child: undefined renders nothing.
JsxText(v) == IF v = Undefined THEN "" ELSE v

\* params.key: the value stored under key, a string here.
RECURSIVE Param(_, _)
Param(params, key) ==
    IF params = << >> THEN Undefined
    ELSE IF Head(params)[1] = key THEN Head(params)[2].string
    ELSE Param(Tail(params), key)

\* String(v) of a parameter value, as URLSearchParams applies it.
ValueText(v) == IF "number" \in DOMAIN v THEN ToString(v.number) ELSE v.string

\* new URLSearchParams(params).toString(): key=value pairs joined by "&".
RECURSIVE URLSearchParams(_)
URLSearchParams(params) ==
    IF params = << >> THEN ""
    ELSE Head(params)[1] \o "=" \o ValueText(Head(params)[2])
         \o (IF Tail(params) = << >> THEN "" ELSE "&" \o URLSearchParams(Tail(params)))

\* str.split(', ') on a string given as its characters: the pieces between
\* the occurrences of the separator "," " ".
RECURSIVE SplitFrom(_, _)
SplitFrom(chars, piece) ==
    IF chars = << >> THEN <<piece>>
    ELSE IF Len(chars) >= 2 /\ chars[1] = "," /\ chars[2] = " "
         THEN <<piece>> \o SplitFrom(SubSeq(chars, 3, Len(chars)), << >>)
         ELSE SplitFrom(Tail(chars), Append(piece, Head(chars)))

split(chars) == SplitFrom(chars, << >>)

\* arr.join(', '): the pieces with "," " " between them.
RECURSIVE join(_)
join(pieces) ==
    IF pieces = << >> THEN << >>
    ELSE IF Len(pieces) = 1 THEN pieces[1]
    ELSE pieces[1] \o <<",", " ">> \o join(Tail(pieces))

\* The characters of a string value written out as one string.
RECURSIVE Chars(_)
Chars(cs) == IF cs = << >> THEN "" ELSE Head(cs) \o Chars(Tail(cs))

\* Slips in the spread: the entry put in front of the state, and the state
\* left out of the new array.
SpreadFront(state, entry) == <<entry>> \o state

SpreadReset(state, entry) == <<entry>>

\* [...history.get(), entry]: a new array, the state followed by the entry.
Spread(state, entry) == Append(state, entry)

\* A windowed request: the system instruction and the last two entries only.
OracleMessagesWindow(state) ==
    <<[role |-> "system", content |-> content, toolInvocations |-> << >>]>>
    \o SubSeq(state, IF Len(state) > 2 THEN Len(state) - 1 ELSE 1, Len(state))

\* The messages option of streamUI: the system instruction, then the state.
OracleMessages(state) ==
    <<[role |-> "system", content |-> content, toolInvocations |-> << >>]>> \o state

\* The placeholder streamUI starts from (its `initial` option).
initial == <<"div", "Loader2">>

\* ---------------------------------------------- the four tools, by name
\* The value each generator yields first.
Loading(tool) ==
    CASE tool = "get_movie_info"     -> <<"div", "Loading movie information...">>
      [] tool = "get_movie_cast"     -> <<"div", "Loading movie cast...">>
      [] tool = "search_movie_title" -> <<"div", "Searching for movies...">>
      [] tool = "filter_movies"      -> <<"div", "Filtering movies...">>

\* The URL each generator fetches.
Url(tool, params) ==
    CASE tool = "get_movie_info"     ->
           "https://moviedatabase8.p.rapidapi.com/FindByImbdId/" \o TemplateText(Param(params, "imdbId"))
      [] tool = "get_movie_cast"     ->
           "https://moviedatabase8.p.rapidapi.com/FindByImbdId/" \o TemplateText(Param(params, "imdbId"))
      [] tool = "search_movie_title" ->
           "https://moviedatabase8.p.rapidapi.com/Search/" \o TemplateText(Param(params, "title"))
      [] tool = "filter_movies"      ->
           "https://moviedatabase8.p.rapidapi.com/Filter?" \o URLSearchParams(params)

\* The value each generator returns when response.ok is false.
NotFound(tool) ==
    CASE tool = "get_movie_info"     -> <<"div", "Movie not found!">>
      [] tool = "get_movie_cast"     -> <<"div", "Cast not found!">>
      [] tool = "search_movie_title" -> <<"div", "No movies found!">>
      [] tool = "filter_movies"      -> <<"div", "No movies found with the specified criteria!">>

\* A summary that numbers the entries of the state: its text depends on
\* what the state holds when the generator commits.
SummaryNumbered(tool, params, movie) ==
    [role |-> "assistant", name |-> tool,
     content |-> "[" \o ToString(Len(history)) \o ": " \o tool \o "]"]

\* The entry each generator appends to the state after a success response.
Summary(tool, params, movie) ==
    CASE tool = "get_movie_info"     ->
           [role |-> "assistant", name |-> "get_movie_info",
            content |-> "[Information about " \o TemplateText(movie[1].Title) \o "]"]
      [] tool = "get_movie_cast"     ->
           [role |-> "assistant", name |-> "get_movie_cast",
            content |-> "[Cast of " \o TemplateText(movie[1].Title) \o "]"]
      [] tool = "search_movie_title" ->
           [role |-> "assistant", name |-> "search_movie_title",
            content |-> "[Movies matching \"" \o TemplateText(Param(params, "title")) \o "\"]"]
      [] tool = "filter_movies"      ->
           [role |-> "assistant", name |-> "filter_movies",
            content |-> "[Movies matching criteria]"]

\* movies.map(...) of search_movie_title: one <li key={movie.id}> per record.
RECURSIVE SearchItems(_)
SearchItems(movies) ==
    IF movies = << >> THEN << >>
    ELSE <<"li", Head(movies).id, JsxText(Head(movies).title)>> \o SearchItems(Tail(movies))

\* movies.map(...) of filter_movies: one <li key={movie.imdbID}> per record.
RECURSIVE FilterItems(_)
FilterItems(movies) ==
    IF movies = << >> THEN << >>
    ELSE <<"li", Head(movies).imdbID, JsxText(Head(movies).Title), " (", JsxText(Head(movies).Year), ")">>
         \o FilterItems(Tail(movies))

\* The value each generator returns after a success response.
Terminal(tool, params, movie) ==
    CASE tool = "get_movie_info"     ->
           <<"h2", JsxText(movie[1].title), "p", JsxText(movie[1].overview),
             "p", "Release Date: ", JsxText(movie[1].release_date),
             "p", "Rating: ", JsxText(movie[1].vote_average)>>
      [] tool = "get_movie_cast"     ->
           <<"div", "h2", "Cast of ", JsxText(movie[1].Title),
             "p", Chars(join(split(movie[1].Actors)))>>
      [] tool = "search_movie_title" ->
           <<"div", "h2", "Movies matching \"", JsxText(Param(params, "title")), "\"", "ul">>
           \o SearchItems(movie)
      [] tool = "filter_movies"      ->
           <<"div", "h2", "Movies matching criteria", "ul">> \o FilterItems(movie)

\* ---------------------------------------------------------- call records
\* A call that has not been made. pc is the suspension point the call is at:
\*   "idle"       not called yet
\*   "calling"    streamUI was called with the messages; sendMessage awaits it
\*   "streaming"  streamUI resolved, sendMessage returned; the oracle has not answered
\*   "text"       the oracle answers in text; deltas of its reply are arriving
\*   "yielded"    a tool was selected; its generator yielded the loading value
\*   "fetching"   the generator awaits fetch
\*   "json"       the generator awaits response.json()
\*   "sleeping"   the generator awaits sleep(1000)
\*   "finished"   the text completed, or the generator returned
\* produced holds the values the generator yielded and returned, in order;
\* committed the entry the call passed to history.done.  base (the length of
\* the state when the call was made), endLen (its length when the turn
\* ended), overlapped (another call was in progress during this one) and
\* events are bookkeeping, read by no action.
NewCall ==
    [pc |-> "idle", message |-> "", messages |-> << >>, returned |-> FALSE,
     reply |-> << >>, content |-> "", deltas |-> 0,
     tool |-> "", params |-> << >>, url |-> "", fetches |-> 0,
     response |-> NoResponse, movie |-> << >>,
     display |-> << >>, produced |-> << >>, committed |-> << >>,
     base |-> 0, endLen |-> 0, overlapped |-> FALSE, events |-> << >>]

Active(c) == call[c].pc \notin {"idle", "finished"}

Init ==
    /\ history = << >>
    /\ owner = << >>
    /\ call = [c \in Calls |-> NewCall]

\* history.update(newState) and history.done(newState): the state becomes
\* newState; c is the call that wrote it.
history_update(c, newState) ==
    /\ history' = newState
    /\ owner' = Append(owner, c)

history_done(c, newState) ==
    /\ history' = newState
    /\ owner' = Append(owner, c)

\* ---------------------------------------------------------------- actions
\* sendMessage(message), up to its await of streamUI: the user entry is
\* appended and the messages for the oracle are read back from the state.
sendMessage(c, message) ==
    /\ call[c].pc = "idle"
    /\ \A d \in Calls : d < c => call[d].pc # "idle"
    /\ LET newState == Spread(history, [role |-> "user", content |-> message])
           others == {d \in Calls \ {c} : Active(d)}
       IN /\ history_update(c, newState)
          /\ call' = [d \in Calls |->
                 IF d = c
                 THEN [call[c] EXCEPT !.pc = "calling", !.message = message,
                                      !.messages = OracleMessages(newState),
                                      !.display = initial,
                                      !.base = Len(history),
                                      !.overlapped = (others # {})]
                 ELSE IF d \in others THEN [call[d] EXCEPT !.overlapped = TRUE]
                 ELSE call[d]]

\* streamUI resolves once the oracle's stream is open, and sendMessage
\* returns {id, role: 'assistant', display: reply.value}.
streamUI_resolves(c) ==
    /\ call[c].pc = "calling"
    /\ call' = [call EXCEPT ![c].pc = "streaming", ![c].returned = TRUE]
    /\ UNCHANGED <<history, owner>>

\* A text handler without its `if (done)`: every delta is committed.
text_delta_commits(c, reply) ==
    /\ \/ call[c].pc = "streaming"
       \/ call[c].pc = "text" /\ reply = call[c].reply
    /\ call[c].deltas < Len(reply)
    /\ LET delta == reply[call[c].deltas + 1]
       IN /\ history_done(c, Spread(history, [role |-> "assistant", content |-> call[c].content \o delta]))
          /\ call' = [call EXCEPT ![c].pc = "text",
                                  ![c].reply = reply,
                                  ![c].content = @ \o delta,
                                  ![c].deltas = @ + 1,
                                  ![c].display = <<"div", call[c].content \o delta>>,
                                  ![c].committed =
                                      <<[role |-> "assistant", content |-> call[c].content \o delta]>>,
                                  ![c].events = Append(@, "commit")]

\* text({content, done: false}): the next delta of the oracle's reply
\* arrived (the first one fixes which reply it is); content is the text so
\* far, and it is rendered.
text_delta(c, reply) ==
    /\ \/ call[c].pc = "streaming"
       \/ call[c].pc = "text" /\ reply = call[c].reply
    /\ call[c].deltas < Len(reply)
    /\ LET delta == reply[call[c].deltas + 1]
       IN call' = [call EXCEPT ![c].pc = "text",
                               ![c].reply = reply,
                               ![c].content = @ \o delta,
                               ![c].deltas = @ + 1,
                               ![c].display = <<"div", call[c].content \o delta>>]
    /\ UNCHANGED <<history, owner>>

\* text({content, done: true}): the oracle signalled completion; the
\* assistant entry is committed and the full text rendered.
text_done(c) ==
    /\ call[c].pc = "text"
    /\ call[c].deltas = Len(call[c].reply)
    /\ history_done(c, Spread(history, [role |-> "assistant", content |-> call[c].content]))
    /\ call' = [call EXCEPT ![c].pc = "finished",
                            ![c].display = <<"div", call[c].content>>,
                            ![c].committed =
                                <<[role |-> "assistant", content |-> call[c].content]>>,
                            ![c].endLen = Len(history'),
                            ![c].events = Append(@, "commit")]

\* A generator without its first yield: it goes straight to the fetch.
generate_yield_silent(c, tool, params) ==
    /\ call[c].pc = "streaming"
    /\ call' = [call EXCEPT ![c].pc = "yielded",
                            ![c].tool = tool, ![c].params = params]
    /\ UNCHANGED <<history, owner>>

\* The oracle selects a tool: its generator starts and yields the loading value.
generate_yield(c, tool, params) ==
    /\ call[c].pc = "streaming"
    /\ call' = [call EXCEPT ![c].pc = "yielded",
                            ![c].tool = tool, ![c].params = params,
                            ![c].display = Loading(tool),
                            ![c].produced = Append(@, Loading(tool)),
                            ![c].events = Append(@, "loading")]
    /\ UNCHANGED <<history, owner>>

\* A generator that commits a placeholder entry before it fetches.
generate_fetch_optimistic(c) ==
    /\ call[c].pc = "yielded"
    /\ history_done(c, Spread(history, [role |-> "assistant", name |-> call[c].tool,
                                        content |-> "[Loading]"]))
    /\ call' = [call EXCEPT ![c].pc = "fetching",
                            ![c].url = Url(call[c].tool, call[c].params),
                            ![c].fetches = @ + 1,
                            ![c].events = @ \o <<"commit", "request">>]

\* The generator is resumed and calls fetch.
generate_fetch(c) ==
    /\ call[c].pc = "yielded"
    /\ call' = [call EXCEPT ![c].pc = "fetching",
                            ![c].url = Url(call[c].tool, call[c].params),
                            ![c].fetches = @ + 1,
                            ![c].events = Append(@, "request")]
    /\ UNCHANGED <<history, owner>>

\* A failure branch that commits a summary of the failure.
generate_not_ok_commits(c) ==
    /\ call[c].pc = "fetching"
    /\ history_done(c, Spread(history, [role |-> "assistant", name |-> call[c].tool,
                                        content |-> "[Not found]"]))
    /\ call' = [call EXCEPT ![c].pc = "finished",
                            ![c].response = NoResponse,
                            ![c].display = NotFound(call[c].tool),
                            ![c].produced = Append(@, NotFound(call[c].tool)),
                            ![c].committed = <<[role |-> "assistant", name |-> call[c].tool,
                                                content |-> "[Not found]"]>>,
                            ![c].endLen = Len(history'),
                            ![c].events = @ \o <<"response", "commit", "terminal">>]

\* A failure branch that takes the last entry of the state back.
generate_not_ok_rollback(c) ==
    /\ call[c].pc = "fetching"
    /\ history' = SubSeq(history, 1, Len(history) - 1)
    /\ owner' = SubSeq(owner, 1, Len(owner) - 1)
    /\ call' = [call EXCEPT ![c].pc = "finished",
                            ![c].response = NoResponse,
                            ![c].display = NotFound(call[c].tool),
                            ![c].produced = Append(@, NotFound(call[c].tool)),
                            ![c].endLen = Len(history'),
                            ![c].events = @ \o <<"response", "terminal">>]

\* fetch resolves with a response that is not ok: the generator returns the
\* "not found" value.
generate_not_ok(c) ==
    /\ call[c].pc = "fetching"
    /\ UNCHANGED <<history, owner>>
    /\ call' = [call EXCEPT ![c].pc = "finished",
                            ![c].response = NoResponse,
                            ![c].display = NotFound(call[c].tool),
                            ![c].produced = Append(@, NotFound(call[c].tool)),
                            ![c].endLen = Len(history'),
                            ![c].events = @ \o <<"response", "terminal">>]

\* fetch resolves with a response that is ok: the generator calls response.json().
generate_ok(c, response) ==
    /\ call[c].pc = "fetching"
    /\ response.ok
    /\ call' = [call EXCEPT ![c].pc = "json",
                            ![c].response = response,
                            ![c].events = Append(@, "response")]
    /\ UNCHANGED <<history, owner>>

\* response.json() resolves: the body is kept and the generator sleeps.
generate_json(c) ==
    /\ call[c].pc = "json"
    /\ call' = [call EXCEPT ![c].pc = "sleeping",
                            ![c].movie = call[c].response.body]
    /\ UNCHANGED <<history, owner>>

\* sleep resolves: the summary entry is committed and the generator returns
\* the rendered result.
generate_commit(c) ==
    /\ call[c].pc = "sleeping"
    /\ history_done(c, Spread(history, Summary(call[c].tool, call[c].params, call[c].movie)))
    /\ call' = [call EXCEPT ![c].pc = "finished",
                            ![c].display = Terminal(call[c].tool, call[c].params, call[c].movie),
                            ![c].produced = Append(@, Terminal(call[c].tool, call[c].params, call[c].movie)),
                            ![c].committed =
                                <<Summary(call[c].tool, call[c].params, call[c].movie)>>,
                            ![c].endLen = Len(history'),
                            ![c].events = @ \o <<"commit", "terminal">>]

Next ==
    \/ \E c \in Calls, message \in Messages : sendMessage(c, message)
    \/ \E c \in Calls : streamUI_resolves(c)
    \/ \E c \in Calls, reply \in Replies : text_delta(c, reply)
    \/ \E c \in Calls : text_done(c)
    \/ \E c \in Calls, tool \in ToolNames : \E params \in ParamBags(tool) : generate_yield(c, tool, params)
    \/ \E c \in Calls : generate_fetch(c)
    \/ \E c \in Calls : generate_not_ok(c)
    \/ \E c \in Calls : \E response \in Responses(call[c].tool) : generate_ok(c, response)
    \/ \E c \in Calls : generate_json(c)
    \/ \E c \in Calls : generate_commit(c)

Spec == Init /\ [][Next]_vars

\* ------------------------------------------------------ properties
IsPrefix(s, t) == Len(s) <= Len(t) /\ \A i \in 1..Len(s) : s[i] = t[i]

\* The positions of the state that call c wrote.
Owned(c) == {i \in 1..Len(owner) : owner[i] = c}

Started(c) == call[c].pc # "idle"
Finished(c) == call[c].pc = "finished"
TextTurn(c) == Started(c) /\ call[c].tool = ""
ToolTurn(c) == call[c].tool # ""
InGenerator(c) == call[c].pc \in {"yielded", "fetching", "json", "sleeping"}

UserEntry(c) == [role |-> "user", content |-> call[c].message]

\* C1: a call that overlapped no other call and whose turn completed leaves
\* the state exactly two entries longer than it found it (its user entry,
\* then its assistant or summary entry) when the text completed or the
\* lookup got a success response, and exactly one entry longer (the user
\* entry) when the lookup got a non-success response.
C1_TurnLength ==
    \A c \in Calls :
        (Finished(c) /\ ~call[c].overlapped) =>
            LET b == call[c].base
                success == TextTurn(c) \/ call[c].response.ok
            IN /\ Len(history) >= call[c].endLen
               /\ call[c].endLen = b + (IF success THEN 2 ELSE 1)
               /\ Len(history) > b /\ history[b + 1] = UserEntry(c)
               /\ success => /\ Len(history) >= b + 2
                             /\ history[b + 2].role = "assistant"
                             /\ <<history[b + 2]>> = call[c].committed

\* C1 witness: two calls in sequence, the first a failed lookup and the
\* second a successful one.
C1_Witness ==
    /\ Finished(1) /\ Finished(2) /\ ~call[1].overlapped /\ ~call[2].overlapped
    /\ ToolTurn(1) /\ ~call[1].response.ok
    /\ ToolTurn(2) /\ call[2].response.ok
    /\ Len(history) = 3

\* C2: the messages a call passed to the oracle are the system instruction
\* followed by the whole state as it stood right after the call's user
\* entry was appended, that entry last.
C2_OracleMessages ==
    \A c \in Calls :
        Started(c) =>
            LET b == call[c].base
                m == call[c].messages
            IN /\ Len(m) = b + 2
               /\ m[1] = [role |-> "system", content |-> content, toolInvocations |-> << >>]
               /\ Len(history) >= b + 1
               /\ \A i \in 1..(b + 1) : m[i + 1] = history[i]
               /\ m[Len(m)] = UserEntry(c)

\* C2 witness: a call made when the state already held a full earlier turn.
C2_Witness ==
    /\ Started(2) /\ call[2].base = 2 /\ Len(call[2].messages) = 4

\* C3: a generator that got a non-success response returned its tool's
\* "not found" value and wrote nothing: the step in which it returned left
\* the state as it was, and the call's only entry is its user entry.
C3_StateInv ==
    \A c \in Calls :
        (Finished(c) /\ ToolTurn(c) /\ ~call[c].response.ok) =>
            /\ call[c].produced[Len(call[c].produced)] = NotFound(call[c].tool)
            /\ call[c].display = NotFound(call[c].tool)
            /\ call[c].committed = << >>
            /\ Cardinality(Owned(c)) = 1
            /\ \A i \in Owned(c) : i <= Len(history) /\ history[i] = UserEntry(c)
            /\ ~call[c].overlapped => call[c].endLen = call[c].base + 1

C3_NoWrite ==
    \A c \in Calls :
        (call[c].pc = "fetching" /\ call'[c].pc = "finished") => history' = history

\* C3, as one formula: the state invariant in every state and the no-write
\* condition on every step.
C3_NotFoundNoWrite == [](C3_StateInv) /\ [][C3_NoWrite]_vars

\* C3 witness: two turns ended on a non-success response, a movie-info
\* lookup and then a title search showing "No movies found!".
C3_Witness ==
    /\ Finished(2) /\ call[2].tool = "search_movie_title" /\ ~call[2].response.ok
    /\ call[2].display = <<"div", "No movies found!">>
    /\ Finished(1) /\ call[1].tool = "get_movie_info" /\ ~call[1].response.ok

\* C4: while the oracle answers in text, no generator runs and nothing is
\* committed for a partial text; when the oracle signals completion the
\* call commits exactly one assistant entry, whose content is the full text
\* that is rendered.
C4_TextPath ==
    \A c \in Calls :
        TextTurn(c) =>
            /\ call[c].produced = << >> /\ call[c].fetches = 0
            /\ ~Finished(c) => /\ call[c].committed = << >>
                               /\ Cardinality(Owned(c)) = 1
            /\ call[c].pc = "text" => call[c].display = <<"div", call[c].content>>
            /\ Finished(c) =>
                   /\ call[c].committed = <<[role |-> "assistant", content |-> call[c].content]>>
                   /\ call[c].display = <<"div", call[c].content>>
                   /\ Cardinality(Owned(c)) = 2
                   /\ \A i \in Owned(c) :
                          i <= Len(history) /\ history[i] \in {UserEntry(c), call[c].committed[1]}
                   /\ \E i \in Owned(c) : i <= Len(history) /\ history[i] = call[c].committed[1]

\* C4 witness: a text reply of two deltas completed and was committed whole.
C4_Witness ==
    \E c \in Calls :
        /\ TextTurn(c) /\ Finished(c) /\ call[c].deltas = 2
        /\ call[c].content = "I am a demo and cannot do that"
        /\ history[Len(history)] = [role |-> "assistant", content |-> "I am a demo and cannot do that"]

\* C5: a generator produces its tool's loading value first, then exactly one
\* more value, the terminal one, with which it ends; nothing is produced
\* after that and a finished run is not started again.
C5_StateInv ==
    \A c \in Calls :
        /\ ~ToolTurn(c) => call[c].produced = << >>
        /\ (ToolTurn(c) /\ InGenerator(c)) => call[c].produced = <<Loading(call[c].tool)>>
        /\ (ToolTurn(c) /\ Finished(c)) =>
               /\ Len(call[c].produced) = 2
               /\ call[c].produced[1] = Loading(call[c].tool)
               /\ call[c].produced[2] # Loading(call[c].tool)
               /\ call[c].produced[2] = call[c].display
        /\ ToolTurn(c) => (InGenerator(c) \/ Finished(c))

C5_NoRestart ==
    \A c \in Calls :
        /\ Finished(c) => call'[c] = call[c]
        /\ ToolTurn(c) => /\ call'[c].tool = call[c].tool
                          /\ IsPrefix(call[c].produced, call'[c].produced)

C6_AdjacentUnlessOverlapped ==
    \A c \in Calls :
        (Finished(c) /\ call[c].committed # << >> /\ ~call[c].overlapped) =>
            \E i \in 1..Len(history) :
                /\ Owned(c) = {i, i + 1}
                /\ i + 1 <= Len(history)
                /\ history[i] = UserEntry(c)
                /\ history[i + 1] = call[c].committed[1]

\* C6 witness: the user entry of a call and the entry the call committed
\* are separated by an entry of the other call.
C6_Witness ==
    \E c \in Calls : \E i, j, k \in 1..Len(history) :
        /\ i < k /\ k < j
        /\ Owned(c) = {i, j} /\ owner[k] # c
        /\ Finished(c) /\ history[i] = UserEntry(c) /\ history[j] = call[c].committed[1]

\* C7: every step leaves the state it found as a prefix of the state it
\* leaves: entries are only ever added at the end.
C7_AppendOnly == [][IsPrefix(history, history') /\ Len(history') <= Len(history) + 1]_vars

\* C7 witness: two overlapping calls have both written their two entries,
\* interleaved.
C7_Witness ==
    /\ owner = <<1, 2, 2, 1>> /\ Len(history) = 4
    /\ call[1].overlapped /\ call[2].overlapped

C9_SummaryTitleIsShownTitle ==
    \A c \in Calls :
        (Finished(c) /\ call[c].tool = "get_movie_info" /\ call[c].response.ok) =>
            /\ Len(call[c].committed) = 1
            /\ call[c].committed[1].name = "get_movie_info"
            /\ call[c].committed[1].content =
                   "[Information about " \o call[c].produced[2][2] \o "]"

\* The order C10 states: in a generator run the loading value comes first, then one request,
\* then the response, then (after a success response only) one commit, then
\* the terminal value; the call writes nothing between its user entry and
\* the response.
EventOrder(c) ==
    CASE call[c].pc = "yielded"  -> <<"loading">>
      [] call[c].pc = "fetching" -> <<"loading", "request">>
      [] call[c].pc \in {"json", "sleeping"} -> <<"loading", "request", "response">>
      [] call[c].pc = "finished" ->
           IF call[c].response.ok
           THEN <<"loading", "request", "response", "commit", "terminal">>
           ELSE <<"loading", "request", "response", "terminal">>

=============================================================================
